---- MODULE Spec2Model ----
(***************************************************************************)
(* BirdsEye: the sensor likelihood models (birdseye/sensor.py) and the     *)
(* relative-state model RFState (birdseye/state.py).                       *)
(*                                                                         *)
(* Numbers.  A state vector is <<range, bearing, course, speed>>.  Every   *)
(* component is an integer count of 1/Scale units, so the integer n of the *)
(* program is I(n) = n * Scale.  Rewards are counted in hundredths.        *)
(* A likelihood is a fraction [n, d]: the floats of Drone are fractions of *)
(* Scale, the quotients of Bearing are kept exact.                         *)
(***************************************************************************)
EXTENDS Integers, Sequences, FiniteSets, TLC

VARIABLES prob, target_speed, target_movement, target_move_iter,
          target_state, sensor_state, sensor_range,
          op, arg, ret, calls, cur

vars == <<prob, target_speed, target_movement, target_move_iter,
          target_state, sensor_state, sensor_range, op, arg, ret, calls, cur>>

model == <<prob, target_speed, target_movement, target_move_iter,
           target_state, sensor_state>>

(***************************************************************************)
(* Bounds of the model.                                                    *)
(***************************************************************************)
\* binary digits after the point of every number (Scale = 2^FracBits)
FracBits == 16
\* significant binary digits of a floating-point number (numpy's float64
\* has 53; the rounding rule is kept and the width is scaled down)
Prec == 10
\* largest value of target_move_iter the calls of update_state lead to
MaxIter == 2
\* calls of circular_control the model follows under SpecCircular
MaxTurns == 10
\* calls of update_sensor the model follows
MaxMoves == 1
\* calls of the driving loop the model follows under SpecFixed
MaxSteps == 4
\* random.randint draws are taken at the end points of the interval and at
\* the multiples of DrawStep inside it
DrawStep == 30
\* largest observation symbol handed to a sensor (3 is the largest valid one)
MaxSymbol == 4
\* largest action index handed to reward_func
MaxAction == 6
\* largest size handed to circular_control
MaxSize == 5

Pow2(n) == 2 ^ n

Scale == Pow2(FracBits)

I(n) == n * Scale

Abs(v) == IF v < 0 THEN -v ELSE v

\* Python's % on integers: the result has the sign of the (positive) divisor
PyMod(a, b) == a % b

(***************************************************************************)
(* Floating point.  A float is an integer count of 1/Scale units that has  *)
(* at most Prec significant binary digits; every operation returns the     *)
(* float nearest to the exact result, ties to the even digit (IEEE 754     *)
(* round-to-nearest-even), values below 1/Scale being the subnormal grid.  *)
(***************************************************************************)
\* the number of binary digits of a (a >= 0)
RECURSIVE BitLen(_)
BitLen(a) ==
    IF a >= 16 THEN 4 + BitLen(a \div 16)
    ELSE IF a >= 4 THEN (IF a >= 8 THEN 4 ELSE 3)
    ELSE IF a >= 2 THEN 2 ELSE IF a >= 1 THEN 1 ELSE 0

Max(a, b) == IF a >= b THEN a ELSE b

Min(a, b) == IF a <= b THEN a ELSE b

Sign(v) == IF v < 0 THEN -1 ELSE 1

\* the quotient q with remainder r of a division by 2 * h, rounded to the
\* nearest integer, ties to even
RoundQR(q, r, h) == IF r > h \/ (r = h /\ q % 2 = 1) THEN q + 1 ELSE q

\* m / 2^t rounded to the nearest integer, ties to even (m >= 0, t >= 0)
RShiftRound(m, t) ==
    IF t = 0 THEN m
    ELSE IF t > 30 THEN (IF t = 31 /\ m > Pow2(30) THEN 1 ELSE 0)
    ELSE RoundQR(m \div Pow2(t), m % Pow2(t), Pow2(t - 1))

\* m * 2^k units with the last t digits of m rounded away
RoundAt(m, k, t) == Sign(m) * RShiftRound(Abs(m), t) * Pow2(t + k)

\* the float nearest to m * 2^k units
RoundShift(m, k) ==
    IF m = 0 THEN 0 ELSE RoundAt(m, k, Max(Max(-k, BitLen(Abs(m)) - Prec), 0))

\* the float nearest to v units
Fl(v) == RoundShift(v, 0)

\* <<m, e>> with a = m * 2^e
MantAt(a, e) == IF e >= 0 THEN <<a \div Pow2(e), e>> ELSE <<a * Pow2(-e), e>>

\* a = m * 2^e with m of at most Prec digits (a > 0 a float)
Mant(a) == MantAt(a, Max(BitLen(a) - Prec, 0))

\* a = m * 2^e with m of exactly Prec digits (a > 0 a float)
NMant(a) == MantAt(a, BitLen(a) - Prec)

FAdd(a, b) == Fl(a + b)

FSub(a, b) == Fl(a - b)

\* the float nearest to s * ma * mb, ma and mb being <<m, e>> pairs
MulME(s, ma, mb) == s * RoundShift(ma[1] * mb[1], ma[2] + mb[2] - FracBits)

FMul(a, b) ==
    IF a = 0 \/ b = 0 THEN 0
    ELSE MulME(Sign(a) * Sign(b), Mant(Abs(a)), Mant(Abs(b)))

\* the quotient of ma by mb as <<q, k>>, the quotient being q * 2^k with the
\* last digit of q set when digits were dropped
DivNM(ma, mb) ==
    <<2 * ((ma[1] * Pow2(18)) \div mb[1])
        + (IF (ma[1] * Pow2(18)) % mb[1] = 0 THEN 0 ELSE 1),
      ma[2] - mb[2] - 19>>

\* a / b as such a pair (a >= 0, b > 0 floats)
DivME(a, b) == IF a = 0 THEN <<0, 0>> ELSE DivNM(NMant(a), NMant(b))

\* the largest q with q * q <= n, by Newton's iteration from x >= sqrt(n)
RECURSIVE ISqrt(_, _)
ISqrt(n, x) ==
    IF (x + n \div x) \div 2 >= x THEN x ELSE ISqrt(n, (x + n \div x) \div 2)

\* the float nearest to sqrt(n) * 2^k, q being ISqrt(n, _)
SqrtQ(q, n, k) == RoundShift(2 * q + (IF q * q = n THEN 0 ELSE 1), k)

\* the float nearest to sqrt(m * 2^e2), e2 even
SqrtN(m, e2) == SqrtQ(ISqrt(m * Pow2(18), Pow2(15)), m * Pow2(18), e2 \div 2 - 10)

SqrtME(me) ==
    IF (me[2] + FracBits) % 2 = 1 THEN SqrtN(2 * me[1], me[2] + FracBits - 1)
    ELSE SqrtN(me[1], me[2] + FracBits)

\* np.sqrt
FSqrt(a) == IF a = 0 THEN 0 ELSE SqrtME(NMant(a))

(***************************************************************************)
(* The library functions sin, cos, arctan2, radians and degrees: the exact *)
(* function evaluated with guard digits (pi in units of 2^-24, the series  *)
(* in units of 2^-14) and rounded to a float.                              *)
(***************************************************************************)
\* pi in units of 2^-24
Pi24 == 52707179

\* pi/180 in units of 2^-30 and 180/pi in units of 2^-20
PiOver180 == 18740330

C180OverPi == 60078364

\* 1, and tan(pi/8), in units of 2^-14
U14 == Pow2(14)

TanPi8 == 6786

\* units of 2^-24 per unit of 1/Scale
Guard == Pow2(24 - FracBits)

\* m / 2^t rounded down (m >= 0, t >= 0)
RShift(m, t) == IF t > 30 THEN 0 ELSE m \div Pow2(t)

\* m * 2^e in units of 2^-n, rounded down
ToUnits(m, e, n) == IF e + n >= 0 THEN m * Pow2(e + n) ELSE RShift(m, -(e + n))

\* a * b in units of 2^-14, both in units of 2^-14
MulU(a, b) == (a * b) \div U14

\* sin(y)/y, cos(y) and atan(u)/u from z = y^2 (or u^2), all in units of 2^-14
SinSeries(z) ==
    U14 - z \div 6 + MulU(z, z) \div 120 - MulU(MulU(z, z), z) \div 5040

CosSeries(z) ==
    U14 - z \div 2 + MulU(z, z) \div 24 - MulU(MulU(z, z), z) \div 720
        + MulU(MulU(MulU(z, z), z), z) \div 40320

AtanSeries(z) ==
    U14 - z \div 3 + MulU(z, z) \div 5 - MulU(MulU(z, z), z) \div 7
        + MulU(MulU(MulU(z, z), z), z) \div 9
        - MulU(MulU(MulU(MulU(z, z), z), z), z) \div 11

\* y^2 in units of 2^-14, y in units of 2^-24
Square14(y) == MulU(Abs(y) \div Pow2(10), Abs(y) \div Pow2(10))

\* x >= 0 radians in units of 2^-24 as <<k, y>>: x = k*pi/2 + y, |y| <= pi/4
ReduceK(X, k) == <<k % 4, X - (k * Pi24) \div 2>>

Reduce(x) == ReduceK(x * Guard, (2 * x * Guard + Pi24 \div 2) \div Pi24)

\* sin(y) with the last t digits of y rounded away
SinRT(y, t) ==
    Sign(y) * RoundShift(RShiftRound(Abs(y), t) * SinSeries(Square14(y)),
                         t - 14 - (24 - FracBits))

SinR(y) == IF y = 0 THEN 0 ELSE SinRT(y, Max(BitLen(Abs(y)) - 14, 0))

CosR(y) == RoundShift(CosSeries(Square14(y)), FracBits - 14)

\* sin(q*pi/2 + y)
SinQ(q, y) ==
    (IF q >= 2 THEN -1 ELSE 1) * (IF q % 2 = 0 THEN SinR(y) ELSE CosR(y))

\* sin(x + n*pi/2), x >= 0 being reduced to ky
SinAt(ky, n) == SinQ((ky[1] + n) % 4, ky[2])

\* np.sin
FSin(x) == Sign(x) * SinAt(Reduce(Abs(x)), 0)

\* np.cos
FCos(x) == SinAt(Reduce(Abs(x)), 1)

\* atan of T (in units of 2^-14, above tan(pi/8)) through U = (1 - T)/(1 + T)
AtanLarge(U) ==
    <<Pi24 \div 4 - MulU(U, AtanSeries(MulU(U, U))) * Pow2(10), -24>>

\* atan of q * 2^k with the last t digits of q rounded away, T being q * 2^k
\* in units of 2^-14
AtanSmall(q, k, T, t) ==
    <<RShiftRound(q, t) * AtanSeries(MulU(T, T)), k + t - 14>>

AtanT(q, k, T) ==
    IF T <= TanPi8 THEN AtanSmall(q, k, T, Max(BitLen(q) - 14, 0))
    ELSE AtanLarge(((U14 - T) * U14) \div (U14 + T))

\* atan(qk[1] * 2^qk[2]) as <<m, e>>, the value being m * 2^e (0 <= the
\* argument <= 1)
AtanME(qk) ==
    IF qk[1] = 0 THEN <<0, 0>> ELSE AtanT(qk[1], qk[2], ToUnits(qk[1], qk[2], 14))

\* arctan2(y, x) from me = atan(min(|y|,|x|) / max(|y|,|x|)), y # 0
Atan2From(y, x, me) ==
    Sign(y) *
    (IF Abs(y) <= Abs(x)
     THEN (IF x > 0 THEN RoundShift(me[1], me[2] + FracBits)
           ELSE RoundShift(Pi24 - ToUnits(me[1], me[2], 24), FracBits - 24))
     ELSE RoundShift(Pi24 \div 2 + (IF x >= 0 THEN -1 ELSE 1) * ToUnits(me[1], me[2], 24),
                     FracBits - 24))

\* np.arctan2(y, x), in radians
FAtan2(y, x) ==
    IF y = 0 THEN (IF x >= 0 THEN 0 ELSE RoundShift(Pi24, FracBits - 24))
    ELSE Atan2From(y, x, AtanME(DivME(Min(Abs(y), Abs(x)), Max(Abs(y), Abs(x)))))

\* np.radians and np.degrees: one multiplication by the rounded constant
Deg2Rad == RoundShift(PiOver180, FracBits - 30)

Rad2Deg == RoundShift(C180OverPi, FracBits - 20)

Radians(d) == FMul(d, Deg2Rad)

Degrees(r) == FMul(r, Rad2Deg)

\* utils.pol2cart(rho, phi)
pol2cart(rho, phi) == <<FMul(rho, FCos(phi)), FMul(rho, FSin(phi))>>

\* the float 360 - m, 0 for m = 0
Negated360(m) == IF m = 0 THEN 0 ELSE Fl(I(360) - m)

\* x % 360 on floats: fmod is exact, a negative remainder has 360 added
FMod360(v) == IF v >= 0 THEN v % I(360) ELSE Negated360((-v) % I(360))

(***************************************************************************)
(* Likelihoods, results of calls and random draws.                         *)
(***************************************************************************)
Frac(n, d) == [n |-> n, d |-> d]

One == Frac(1, 1)

\* the value 0.0001 returned outside a region
Floor == Frac(1, 10000)

\* the float of v units as a fraction
Float(v) == Frac(v, Scale)

\* the float nearest to the decimal n/d
Dec(n, d) == RoundShift(DivME(I(n), I(d))[1], DivME(I(n), I(d))[2] + FracBits)

\* w > 0.0001 and w >= 0.0001, for w >= 0 (by division: no product to overflow)
AboveFloor(w) == w.n > 0 /\ w.d \div w.n < Floor.d

AtLeastFloor(w) == w.n > 0 /\ (w.d + w.n - 1) \div w.n <= Floor.d

Value(v) == [kind |-> "value", val |-> v]

State(v) == [kind |-> "state", val |-> v]

Symbol(v) == [kind |-> "symbol", val |-> v]

\* a function that falls off its end returns None
NoneResult == [kind |-> "none", val |-> <<>>]

\* an exception leaves the call
Raised(e) == [kind |-> "error", val |-> e]

\* random.randint(lo, hi): the end points and the multiples of DrawStep
RandInt(lo, hi) == {v \in lo..hi : v = lo \/ v = hi \/ v % DrawStep = 0}

\* random.randint(0, 11) * 30
RandCourse == {c * 30 : c \in {0, 3, 11}}

\* [random.randint(25,100), bearing, random.randint(0,11)*30, 1], the bearing
\* wrapped by +360 when negative
SampledStates(bearings) ==
    {State(<<I(r), I(IF b < 0 THEN b + 360 ELSE b), I(c), I(1)>>) :
        r \in RandInt(25, 100), b \in bearings, c \in RandCourse}

UnboundLocal == Raised("UnboundLocalError")

(***************************************************************************)
(* class Drone                                                             *)
(***************************************************************************)
\* the floats 0.9, 0.1 and 0.5, in units
Drone_obs1_prob(x) ==
    IF I(-60) <= x[2] /\ x[2] <= I(60) THEN Dec(9, 10)
    ELSE IF I(120) <= x[2] /\ x[2] <= I(240) THEN Dec(1, 10)
    ELSE Dec(5, 10)

Drone_weight(o, xp) ==
    IF o = 1 THEN Value(Float(Drone_obs1_prob(xp)))
    ELSE Value(Float(FSub(I(1), Drone_obs1_prob(xp))))

\* the weights random.choices draws with, symbol s at index s + 1
Drone_weights(x) ==
    <<Float(FSub(I(1), Drone_obs1_prob(x))), Float(Drone_obs1_prob(x))>>

\* random.choices(obsers, weights): a symbol of positive weight; it raises
\* ValueError when the weights sum to zero
Choices(weights) ==
    IF \A i \in 1..Len(weights) : weights[i].n = 0
    THEN {Raised("ValueError")}
    ELSE {Symbol(i - 1) : i \in {j \in 1..Len(weights) : weights[j].n > 0}}

Drone_observation(x) == Choices(Drone_weights(x))

Drone_gen_state(obs) ==
    IF obs = 1 THEN SampledStates(RandInt(-60, 60))
    ELSE IF obs = 0 THEN SampledStates(RandInt(120, 240))
    ELSE {UnboundLocal}

(***************************************************************************)
(* class Bearing; R is self.sensor_range                                   *)
(***************************************************************************)
\* 2 - 2*state_range/self.sensor_range
Decay(state_range, R) == Frac(2 * R - 2 * state_range, R)

\* 2*state_range/self.sensor_range - 1
Growth(state_range, R) == Frac(2 * state_range - R, R)

\* rel_brg after "if rel_brg < 0: rel_brg += 360"
Wrapped(rel_brg) == IF rel_brg < 0 THEN rel_brg + I(360) ELSE rel_brg

Bearing_obs1(state, R) ==
    LET rel_brg == Wrapped(state[2])
        state_range == state[1]
        sector == (I(60) < rel_brg /\ rel_brg < I(90))
                  \/ (I(270) < rel_brg /\ rel_brg < I(300))
    IN  IF sector /\ 2 * state_range < R THEN One
        ELSE IF sector /\ state_range < R THEN Decay(state_range, R)
        ELSE Floor

\* reads the course field as the bearing and the bearing field as the range
Bearing_obs2(state, R) ==
    LET rel_brg == Wrapped(state[3])
        state_range == state[2]
        sector == (I(90) <= rel_brg /\ rel_brg < I(120))
                  \/ (I(240) < rel_brg /\ rel_brg <= I(270))
    IN  IF sector /\ 2 * state_range < R THEN One
        ELSE IF sector /\ state_range < R THEN Decay(state_range, R)
        ELSE Floor

\* obs3 with the decay not limited to ranges below sensor_range
Bearing_obs3_unbounded(state, R) ==
    LET rel_brg == Wrapped(state[2])
        state_range == state[1]
        sector == I(120) <= rel_brg /\ rel_brg <= I(240)
    IN  IF sector /\ 2 * state_range < R THEN One
        ELSE IF sector THEN Decay(state_range, R)
        ELSE Floor

Bearing_obs3(state, R) ==
    LET rel_brg == Wrapped(state[2])
        state_range == state[1]
        sector == I(120) <= rel_brg /\ rel_brg <= I(240)
    IN  IF sector /\ 2 * state_range < R THEN One
        ELSE IF sector /\ state_range < R THEN Decay(state_range, R)
        ELSE Floor

Bearing_obs0(state, R) ==
    LET rel_brg == Wrapped(state[2])
        state_range == state[1]
        band == R < 2 * state_range /\ state_range < R
    IN  IF rel_brg <= I(60) \/ rel_brg >= I(300) \/ state_range >= R THEN One
        ELSE IF ~(Bearing_obs1(state, R).n > 0) /\ ~(Bearing_obs2(state, R).n > 0)
                /\ ~(Bearing_obs3(state, R).n > 0) THEN One
        ELSE IF (I(120) <= rel_brg /\ rel_brg <= I(240)) /\ band
             THEN Growth(state_range, R)
        ELSE IF ((I(90) <= rel_brg /\ rel_brg < I(120))
                 \/ (I(240) < rel_brg /\ rel_brg <= I(270))) /\ band
             THEN Growth(state_range, R)
        ELSE IF ((I(60) <= rel_brg /\ rel_brg < I(90))
                 \/ (I(270) < rel_brg /\ rel_brg <= I(300))) /\ band
             THEN Growth(state_range, R)
        ELSE Floor

Bearing_weight(o, xp, R) ==
    IF o = 0 THEN Value(Bearing_obs0(xp, R))
    ELSE IF o = 1 THEN Value(Bearing_obs1(xp, R))
    ELSE IF o = 2 THEN Value(Bearing_obs2(xp, R))
    ELSE IF o = 3 THEN Value(Bearing_obs3(xp, R))
    ELSE NoneResult

Bearing_weights(x, R) ==
    <<Bearing_obs0(x, R), Bearing_obs1(x, R), Bearing_obs2(x, R), Bearing_obs3(x, R)>>

Bearing_observation(x, R) == Choices(Bearing_weights(x, R))

Bearing_gen_state(obs) ==
    IF obs = 0 THEN SampledStates(RandInt(-60, 60))
    ELSE IF obs = 1 THEN SampledStates(RandInt(60, 90) \cup RandInt(270, 300))
    ELSE IF obs = 2 THEN SampledStates(RandInt(90, 120) \cup RandInt(240, 270))
    ELSE IF obs = 3 THEN SampledStates(RandInt(120, 240))
    ELSE {UnboundLocal}

(***************************************************************************)
(* class RFState.  A control is <<turn, speed>> in whole numbers; a reward *)
(* is counted in hundredths; an omitted action_idx is <<>> and a given one *)
(* is <<idx>>.                                                             *)
(***************************************************************************)
\* RFState.init_target_state: [randint(25,100), randint(0,359), randint(0,11)*30, 1]
init_target_state ==
    {<<I(r), I(b), I(c), I(1)>> :
        r \in RandInt(25, 100), b \in RandInt(0, 359), c \in RandCourse}

\* RFState.init_sensor_state
init_sensor_state == <<0, 0, 0, 0>>

\* the default of action_penalty, -.05
DefaultPenalty == -5

\* reward_func with the far boundary taken strictly
reward_func_strict(state, action_idx, action_penalty) ==
    LET state_range == state[1] IN
    IF action_idx # <<>>
    THEN LET penalty == IF 2 < action_idx[1] /\ action_idx[1] < 5 THEN 0
                        ELSE action_penalty
         IN  IF state_range > I(150) THEN -200 + penalty
             ELSE IF state_range <= I(10) THEN -200 + penalty
             ELSE 10 + penalty
    ELSE IF state_range > I(150) THEN -200
         ELSE IF state_range <= I(10) THEN -20000
         ELSE 10

\* reward_func with the penalty dropped for the index 3 alone
reward_func_only3(state, action_idx, action_penalty) ==
    LET state_range == state[1] IN
    IF action_idx # <<>>
    THEN LET penalty == IF 2 < action_idx[1] /\ action_idx[1] < 4 THEN 0
                        ELSE action_penalty
         IN  IF state_range >= I(150) THEN -200 + penalty
             ELSE IF state_range <= I(10) THEN -200 + penalty
             ELSE 10 + penalty
    ELSE IF state_range >= I(150) THEN -200
         ELSE IF state_range <= I(10) THEN -20000
         ELSE 10

\* RFState.reward_func, in hundredths
reward_func(state, action_idx, action_penalty) ==
    LET state_range == state[1] IN
    IF action_idx # <<>>
    THEN LET idx == action_idx[1]
             penalty == IF 2 < idx /\ idx < 5 THEN 0 ELSE action_penalty
         IN  IF state_range >= I(150) THEN -200 + penalty
             ELSE IF state_range <= I(10) THEN -200 + penalty
             ELSE 10 + penalty
    ELSE IF state_range >= I(150) THEN -200
         ELSE IF state_range <= I(10) THEN -20000
         ELSE 10

\* circular_control with the counter advanced only on a turn
circular_control_on_turn(iter, ts, size) ==
    [ret |-> <<IF iter % size = 0 THEN 30 ELSE 0, ts>>,
     iter |-> IF iter % size = 0 THEN iter + 1 ELSE iter]

\* RFState.circular_control: the returned [d_crs, target_speed] and the new counter
circular_control(iter, ts, size) ==
    [ret |-> <<IF iter % size = 0 THEN 30 ELSE 0, ts>>, iter |-> iter + 1]

\* "if x < 0: x += 360" on a float
\* "if x < 0: x += 360" on a float
WrapNeg(x) == IF x < 0 THEN FAdd(x, I(360)) ELSE x

\* the same on a course, where the sum is exact
WrapCourse(c) == IF c < 0 THEN c + I(360) ELSE c

\* <<r, theta>> of the point pos: np.sqrt, np.arctan2, np.degrees and the wrap
Polar(pos) ==
    <<FSqrt(FAdd(FMul(pos[1], pos[1]), FMul(pos[2], pos[2]))),
      WrapNeg(Degrees(FAtan2(pos[2], pos[1])))>>

\* the course a transition starts from: crs % 360, less the turn, wrapped
TurnedCourse(crs, turn) ==
    PyMod(WrapCourse(PyMod(crs, I(360)) - I(turn)), I(360))

\* the bearing a transition starts from: theta % 360, less the turn, % 360
TurnedBearing(theta, turn) ==
    WrapNeg(FMod360(FSub(FMod360(theta), I(turn))))

\* the course after the change d_crs: "crs += d_crs; crs %= 360; if crs < 0: ..."
NextCourse(crs, d_crs) == WrapCourse(PyMod(crs + I(d_crs), I(360)))

\* the state returned: [r, theta_deg, crs, spd]
Returned(rt, crs, spd) == <<rt[1], rt[2], crs, spd>>

\* the polar position of xy + dxy, moved back by the sensor's own advance
Arrived(xy, dxy, own, crs, spd) ==
    Returned(Polar(<<FSub(FAdd(xy[1], dxy[1]), own), FAdd(xy[2], dxy[2])>>), crs, spd)

\* the target at xy advancing ts on the course crs
Moved(xy, ts, crs, spd) == Arrived(xy, pol2cart(ts, Radians(crs)), spd, crs, spd)

\* RFState.update_state once the course change d_crs of this call is drawn
update_state(ts, state, control, d_crs) ==
    Moved(pol2cart(state[1], Radians(TurnedBearing(state[2], control[1]))), ts,
          NextCourse(TurnedCourse(state[3], control[1]), d_crs), I(control[2]))

\* random.random() in tenths, and the course changes "random.random() >=
\* self.prob" with random.choice([-1, 1]) * 30 can give (prob in tenths)
RandomDraws == {0, 5, 9}

\* the course changes with the comparison turned round
CourseChanges_inverted(p) ==
    {IF u < p THEN ch * 30 ELSE 0 : u \in RandomDraws, ch \in {-1, 1}}

CourseChanges(p) ==
    {IF u >= p THEN ch * 30 ELSE 0 : u \in RandomDraws, ch \in {-1, 1}}

\* the polar position of the sum of the points t and s
Summed(t, s) == Polar(<<FAdd(t[1], s[1]), FAdd(t[2], s[2])>>)

\* the sensor at xy advancing spd on the course crs
Advanced(xy, crs, spd) ==
    Returned(Summed(xy, pol2cart(spd, Radians(crs))), crs, spd)

\* RFState.update_sensor: the new sensor_state
update_sensor(sensor, control) ==
    Advanced(pol2cart(sensor[1], Radians(sensor[2])),
             PyMod(WrapCourse(PyMod(sensor[3], I(360)) + I(control[1])), I(360)),
             I(control[2]))

get_absolute_state(sensor, relative_state) ==
    Returned(Summed(pol2cart(relative_state[1], Radians(relative_state[2])),
                    pol2cart(sensor[1], Radians(sensor[2]))),
             FAdd(sensor[3], relative_state[3]), relative_state[4])

(***************************************************************************)
(* The state machine.  prob .. sensor_state are the fields of an RFState,  *)
(* sensor_range the field of a Bearing; op, arg and ret are the last call, *)
(* its arguments and what it returned; calls counts the calls made of the  *)
(* operation a specification repeats (update_sensor under Spec,            *)
(* circular_control under SpecCircular, the driving loop under SpecFixed); *)
(* cur is the relative state the driving loop holds.                       *)
(***************************************************************************)
\* RFState.__init__(prob, target_speed, target_movement) and Bearing.__init__
Construct(probs, speeds, movements, targets, ranges) ==
    /\ prob \in probs
    /\ target_speed \in speeds
    /\ target_movement \in movements
    /\ target_move_iter = 0
    /\ target_state \in targets
    /\ sensor_state = init_sensor_state
    /\ sensor_range \in ranges
    /\ op = "init"
    /\ arg = <<>>
    /\ ret = NoneResult
    /\ calls = 0
    /\ cur = target_state

fields == <<prob, target_speed, target_movement, sensor_range>>

RewardFunc(states, actions, penalties) ==
    \E state \in states, action_idx \in actions, action_penalty \in penalties :
        /\ op' = "reward_func"
        /\ arg' = [state |-> state, action_idx |-> action_idx,
                   action_penalty |-> action_penalty]
        /\ ret' = Value(reward_func(state, action_idx, action_penalty))
        /\ UNCHANGED <<fields, target_move_iter, target_state, sensor_state, calls, cur>>

CircularControl(sizes) ==
    \E size \in sizes :
        /\ calls < MaxTurns
        /\ ret' = Value(circular_control(target_move_iter, target_speed, size).ret)
        /\ target_move_iter' = circular_control(target_move_iter, target_speed, size).iter
        /\ op' = "circular_control"
        /\ arg' = [size |-> size]
        /\ calls' = calls + 1
        /\ UNCHANGED <<fields, target_state, sensor_state, cur>>

\* the circular branch taken whatever target_update is
Corrects_always(target_update, movement) == movement = "circular"

\* the branch of update_state that calls circular_control
Corrects(target_update, movement) == target_update /\ movement = "circular"

\* what one call of update_state returns and does to target_move_iter: the
\* circular branch calls circular_control(5), the other two draw the random
\* course change
Transition(state, control, target_update) ==
    IF Corrects(target_update, target_movement)
    THEN /\ target_move_iter < MaxIter
         /\ ret' = State(update_state(target_speed, state, control,
                        circular_control(target_move_iter, target_speed, 5).ret[1]))
         /\ target_move_iter' = circular_control(target_move_iter, target_speed, 5).iter
    ELSE /\ \E d_crs \in CourseChanges(prob) :
                ret' = State(update_state(target_speed, state, control, d_crs))
         /\ UNCHANGED target_move_iter

\* update_state storing what it returns in target_state
UpdateState_stores(states, controls) ==
    \E state \in states, control \in controls, target_update \in BOOLEAN :
        /\ op' = "update_state"
        /\ arg' = [state |-> state, control |-> control, target_update |-> target_update]
        /\ Transition(state, control, target_update)
        /\ target_state' = ret'.val
        /\ UNCHANGED <<fields, sensor_state, calls, cur>>

\* RFState.update_state(state, control, target_update)
UpdateState(states, controls) ==
    \E state \in states, control \in controls, target_update \in BOOLEAN :
        /\ op' = "update_state"
        /\ arg' = [state |-> state, control |-> control, target_update |-> target_update]
        /\ Transition(state, control, target_update)
        /\ UNCHANGED <<fields, target_state, sensor_state, calls, cur>>

UpdateSensor(controls) ==
    \E control \in controls :
        /\ calls < MaxMoves
        /\ sensor_state' = update_sensor(sensor_state, control)
        /\ op' = "update_sensor"
        /\ arg' = [control |-> control]
        /\ ret' = NoneResult
        /\ calls' = calls + 1
        /\ UNCHANGED <<fields, target_move_iter, target_state, cur>>

GetAbsoluteState(states) ==
    \E relative_state \in states :
        /\ op' = "get_absolute_state"
        /\ arg' = [relative_state |-> relative_state]
        /\ ret' = State(get_absolute_state(sensor_state, relative_state))
        /\ UNCHANGED <<fields, target_move_iter, target_state, sensor_state, calls, cur>>

\* the driving loop "state = model.update_state(state, control)"
Loop(controls) ==
    \E control \in controls, target_update \in BOOLEAN :
        /\ calls < MaxSteps
        /\ op' = "update_state"
        /\ arg' = [state |-> cur, control |-> control, target_update |-> target_update]
        /\ Transition(cur, control, target_update)
        /\ cur' = ret'.val
        /\ calls' = calls + 1
        /\ UNCHANGED <<fields, target_state, sensor_state>>

frame == <<model, sensor_range, calls, cur>>

DroneWeight(symbols, states) ==
    \E o \in symbols, xp \in states :
        /\ op' = "Drone.weight"
        /\ arg' = [o |-> o, xp |-> xp]
        /\ ret' = Drone_weight(o, xp)
        /\ UNCHANGED frame

DroneObservation(states) ==
    \E x \in states :
        /\ op' = "Drone.observation"
        /\ arg' = [x |-> x]
        /\ ret' \in Drone_observation(x)
        /\ UNCHANGED frame

DroneGenState(symbols) ==
    \E obs \in symbols :
        /\ op' = "Drone.gen_state"
        /\ arg' = [obs |-> obs]
        /\ ret' \in Drone_gen_state(obs)
        /\ UNCHANGED frame

BearingWeight(symbols, states) ==
    \E o \in symbols, xp \in states :
        /\ op' = "Bearing.weight"
        /\ arg' = [o |-> o, xp |-> xp]
        /\ ret' = Bearing_weight(o, xp, sensor_range)
        /\ UNCHANGED frame

BearingObservation(states) ==
    \E x \in states :
        /\ op' = "Bearing.observation"
        /\ arg' = [x |-> x]
        /\ ret' \in Bearing_observation(x, sensor_range)
        /\ UNCHANGED frame

BearingGenState(symbols) ==
    \E obs \in symbols :
        /\ op' = "Bearing.gen_state"
        /\ arg' = [obs |-> obs]
        /\ ret' \in Bearing_gen_state(obs)
        /\ UNCHANGED frame

(***************************************************************************)
(* The specifications and their inputs.                                    *)
(***************************************************************************)
\* a state whose transition with the control (0, 0) ends on the bearing 360
Probe == <<I(1), I(30), I(330), I(1)>>

Controls == {<<0, 0>>, <<-30, 1>>, <<390, 2>>}

SensorControls == {<<-30, 1>>, <<390, 2>>}

Targets == {<<I(25), I(359), I(330), I(1)>>, <<I(100), I(30), I(0), I(1)>>}

\* the operations of an RFState, in any order
Init ==
    Construct({9, 10}, {I(1)}, {"random", "circular"}, Targets, {I(150)})

Next ==
    \/ RewardFunc({target_state, <<I(5), 0, 0, I(1)>>}, {<<>>, <<3>>}, {DefaultPenalty})
    \/ UpdateState({target_state, Probe}, Controls)
    \/ UpdateSensor(SensorControls)
    \/ GetAbsoluteState({target_state, Probe})

Spec == Init /\ [][Next]_vars

\* reward_func on ranges around its two boundaries, every action index
RewardStates ==
    {<<r, 0, 0, I(1)>> :
        r \in {0, I(5), I(10), I(10) + 1, I(50), I(150) - 1, I(150), I(200)}}

RewardActions == {<<>>} \cup {<<idx>> : idx \in 0..MaxAction}

NextReward == RewardFunc(RewardStates, RewardActions, {DefaultPenalty, -100})

SpecReward == Init /\ [][NextReward]_vars

\* circular_control called again and again on a fresh model
NextCircular == CircularControl(1..MaxSize)

SpecCircular == Init /\ [][NextCircular]_vars

\* the fixed-point scenario: prob = 1.0, target_speed = 0, the control (0, 0)
InitFixed == Construct({10}, {0}, {"random"}, init_target_state, {I(150)})

NextFixed == Loop({<<0, 0>>})

SpecFixed == InitFixed /\ [][NextFixed]_vars

\* the two sensors on states around the sectors' and the ranges' boundaries
SensorStates ==
    {<<r, I(b), I(c), I(1)>> :
        r \in {0, sensor_range \div 2 + 1, sensor_range - 1, sensor_range},
        b \in {0, 60, 75, 90, 180, 300}, c \in {0, 90}}

NextSensor ==
    \/ DroneWeight(0..MaxSymbol, SensorStates)
    \/ DroneObservation(SensorStates)
    \/ DroneGenState(0..MaxSymbol)
    \/ BearingWeight(0..MaxSymbol, SensorStates)
    \/ BearingObservation(SensorStates)
    \/ BearingGenState(0..MaxSymbol)

\* Bearing() with the default sensor_range and Bearing(sensor_range=40)
InitSensor ==
    Construct({9}, {I(1)}, {"random"}, {<<I(25), I(359), I(330), I(1)>>},
              {I(150), I(40)})

SpecSensor == InitSensor /\ [][NextSensor]_vars

(***************************************************************************)
(* Claims.                                                                 *)
(***************************************************************************)
\* the reward of the range r alone, and with an action, before the penalty
RangeReward(r) == IF r >= I(150) THEN -200 ELSE IF r <= I(10) THEN -20000 ELSE 10

ActionReward(r) == IF r >= I(150) THEN -200 ELSE IF r <= I(10) THEN -200 ELSE 10

\* the action indices whose penalty reward_func drops
ZeroPenalty == {3, 4}

\* what C1 says reward_func returned, for the call recorded in op, arg, ret
C1_Value ==
    IF arg.action_idx = <<>> THEN ret = Value(RangeReward(arg.state[1]))
    ELSE arg.action_idx[1] \notin ZeroPenalty
            => ret = Value(ActionReward(arg.state[1]) + arg.action_penalty)

\* C1: reward_func is piecewise in the range: with an action index that is
\* not a zero-penalty one it returns -2 + action_penalty for range >= 150 and
\* for range <= 10 and 0.1 + action_penalty otherwise; with the index omitted
\* it returns -2, -200 and 0.1; the boundaries 10 and 150 included; and the
\* call changes no field of the model.
C1_RewardPiecewise ==
    [][op' = "reward_func" => (C1_Value' /\ UNCHANGED <<model, sensor_range>>)]_vars

\* reward_func was called on the boundary 10 without an action and on the
\* boundary 150 with one
C1_Witness ==
    /\ op = "reward_func"
    /\ \/ arg.action_idx = <<>> /\ arg.state[1] = I(10) /\ ret = Value(-20000)
       \/ arg.action_idx = <<5>> /\ arg.state[1] = I(150)
          /\ ret = Value(-200 + arg.action_penalty)

\* C2 as stated: the penalty is dropped for the action index 3 and added for
\* every other index, 4 and 5 in particular.
C2_OnlyIndex3 ==
    (op = "reward_func" /\ arg.action_idx # <<>>)
        => ret = Value(ActionReward(arg.state[1])
                       + (IF arg.action_idx[1] = 3 THEN 0 ELSE arg.action_penalty))

\* C2, amended: the penalty is dropped for the action indices 3 and 4 and
\* for no other index; for every other index (5 in particular) the penalty
\* is added to the range-based reward.
C2_Index3And4 ==
    (op = "reward_func" /\ arg.action_idx # <<>>)
        => ret = Value(ActionReward(arg.state[1])
                       + (IF arg.action_idx[1] \in {3, 4} THEN 0 ELSE arg.action_penalty))

\* reward_func returned 0.1 for the range 50 and the action index 4
C2_Witness ==
    /\ op = "reward_func"
    /\ arg.action_idx = <<4>> /\ arg.state[1] = I(50) /\ arg.action_penalty # 0
    /\ ret = Value(10)

\* C3: circular_control(size) returns the turn 30 exactly when the counter
\* before the call is a multiple of size and 0 otherwise, always with
\* target_speed, and adds 1 to the counter on every call: after n calls on a
\* fresh model the counter is n, and with size 5 the turn within the first
\* 10 calls is 30 on the 1st and the 6th call only.
C3_CircularControl ==
    op = "circular_control" =>
        /\ target_move_iter = calls
        /\ ret = Value(<<IF (calls - 1) % arg.size = 0 THEN 30 ELSE 0, target_speed>>)
        /\ (arg.size = 5 /\ calls <= 10) => (ret.val[1] = 30 <=> calls \in {1, 6})

\* the tenth call, made with size 5, returned the turn 0
C3_Witness ==
    /\ op = "circular_control" /\ arg.size = 5
    /\ calls = 10 /\ target_move_iter = 10 /\ ret.val[1] = 0

\* C4 as stated: on a model with target_movement = 'circular' every call of
\* update_state, for either value of target_update, adds exactly one to
\* target_move_iter.
C4_EveryCall ==
    [][(op' = "update_state" /\ target_movement = "circular")
           => target_move_iter' = target_move_iter + 1]_vars

\* C4, amended: a call of update_state adds exactly one to target_move_iter
\* when target_update is true and target_movement is 'circular', and leaves
\* the counter as it is in every other call (target_update false, the
\* default, included).
C4_WhenUpdating ==
    [][op' = "update_state"
           => target_move_iter' = target_move_iter
                  + (IF arg'.target_update /\ target_movement = "circular"
                     THEN 1 ELSE 0)]_vars

\* a circular model called with target_update false whose counter is still 0
C4_Witness ==
    /\ op = "update_state" /\ target_movement = "circular"
    /\ ~arg.target_update /\ target_move_iter = 0

\* an angle of [0, 360)
Normalized(a) == 0 <= a /\ a < I(360)

\* C5: the state update_state returns has its bearing and its course in
\* [0, 360), and so has the sensor_state update_sensor stores, for every
\* input state, control and course change.
C5_Normalized ==
    /\ op = "update_state" => Normalized(ret.val[2]) /\ Normalized(ret.val[3])
    /\ Normalized(sensor_state[2]) /\ Normalized(sensor_state[3])

\* C10 as stated: update_state changes no field of the model; reward_func
\* and get_absolute_state leave target_state and sensor_state unchanged; only
\* update_sensor overwrites sensor_state, and it leaves target_state and
\* target_move_iter unchanged.
C10_MutatesNothing ==
    [][/\ op' = "update_state" => UNCHANGED model
       /\ op' \in {"reward_func", "get_absolute_state"}
              => UNCHANGED <<target_state, sensor_state>>
       /\ sensor_state' # sensor_state => op' = "update_sensor"
       /\ op' = "update_sensor" => UNCHANGED <<target_state, target_move_iter>>]_vars

\* C10, amended: update_state leaves target_state and sensor_state (and
\* prob, target_speed, target_movement) unchanged and changes
\* target_move_iter, by one, only when target_update is true on a circular
\* model; the rest as stated.
C10_MutatesCounterOnly ==
    [][/\ op' = "update_state"
              => /\ UNCHANGED <<prob, target_speed, target_movement,
                                target_state, sensor_state>>
                 /\ target_move_iter' # target_move_iter
                        => /\ arg'.target_update /\ target_movement = "circular"
                           /\ target_move_iter' = target_move_iter + 1
       /\ op' \in {"reward_func", "get_absolute_state"}
              => UNCHANGED <<target_state, sensor_state>>
       /\ sensor_state' # sensor_state => op' = "update_sensor"
       /\ op' = "update_sensor" => UNCHANGED <<target_state, target_move_iter>>]_vars

\* update_state returned a new state, after update_sensor had moved the
\* sensor and the counter had advanced, with target_state as constructed
C10_Witness ==
    /\ op = "update_state" /\ ret.val # arg.state
    /\ sensor_state # init_sensor_state /\ target_move_iter > 0
    /\ target_state \in Targets

\* the spacing of the floats around v, and a within n spacings of b
Ulp(v) == Pow2(Max(BitLen(Abs(v)) - Prec, 0))

Near(a, b, n) == Abs(a - b) <= n * Ulp(b)

\* C7 as stated: with prob = 1.0, target_speed = 0 and the control (0, 0),
\* the state fed back through update_state stays the initial target_state
\* after every call.
C7_FixedPoint == calls > 0 => cur = target_state

\* C7, amended: after every call the course is the initial course, the speed
\* is the speed of the control, 0 (the initial speed is 1), and the range and
\* the bearing are the initial ones up to the rounding of the conversion to
\* Cartesian coordinates and back, at most 4 spacings of the floats a call.
C7_FixedUpToRounding ==
    calls > 0 =>
        /\ cur[3] = target_state[3]
        /\ cur[4] = 0
        /\ Near(cur[1], target_state[1], 4 * calls)
        /\ Near(cur[2], target_state[2], 4 * calls)

\* after the last call of the loop the range or the bearing has moved
C7_Witness ==
    /\ calls = MaxSteps /\ op = "update_state" /\ cur = ret.val
    /\ cur[3] = target_state[3]
    /\ cur[1] # target_state[1] \/ cur[2] # target_state[2]

\* C6: every state gen_state(o) can produce has weight(o, state) above the
\* floor 0.0001, for Drone and for Bearing with the default sensor_range.
C6_InverseConsistent ==
    /\ (op = "Drone.gen_state" /\ ret.kind = "state")
           => AboveFloor(Drone_weight(arg.obs, ret.val).val)
    /\ (op = "Bearing.gen_state" /\ ret.kind = "state" /\ sensor_range = I(150))
           => AboveFloor(Bearing_weight(arg.obs, ret.val, sensor_range).val)

\* C8: weight and gen_state called with a symbol outside the alphabet of
\* the sensor ({0,1} for Drone, {0,1,2,3} for Bearing) end in an error.
C8_InvalidSymbolFails ==
    /\ (op = "Drone.weight" /\ arg.o \notin {0, 1}) => ret.kind = "error"
    /\ (op = "Drone.gen_state" /\ arg.obs \notin {0, 1}) => ret.kind = "error"
    /\ (op = "Bearing.weight" /\ arg.o \notin 0..3) => ret.kind = "error"
    /\ (op = "Bearing.gen_state" /\ arg.obs \notin 0..3) => ret.kind = "error"

\* a fraction of (0, 1]
Positive(w) == 0 < w.n /\ w.n <= w.d

\* observation of Drone returns a symbol of {0, 1} whose weight is not zero,
\* and the two weights of a state sum to 1
C9_DroneSampler ==
    /\ op = "Drone.observation"
           => /\ ret.kind = "symbol" /\ ret.val \in {0, 1}
              /\ Drone_weights(arg.x)[ret.val + 1].n > 0
    /\ (op = "Drone.weight" /\ arg.o \in {0, 1})
           => /\ ret.kind = "value"
              /\ FAdd(ret.val.n, Drone_weight(1 - arg.o, arg.xp).val.n) = I(1)

\* observation of Bearing returns a symbol of {0,1,2,3} whose weight is not zero
C9_BearingSampler ==
    op = "Bearing.observation"
        => /\ ret.kind = "symbol" /\ ret.val \in 0..3
           /\ Bearing_weights(arg.x, sensor_range)[ret.val + 1].n > 0

\* C9 as stated: every weight is non-negative and one is positive, each of
\* obs0..obs3 of Bearing lying in [0.0001, 1] and the two weights of Drone
\* in {0.1, 0.5, 0.9} with the sum 1, and the sampler returns a symbol of
\* the alphabet whose weight is not zero.
C9_AtLeastFloor ==
    /\ C9_DroneSampler
    /\ C9_BearingSampler
    /\ (op = "Drone.weight" /\ arg.o \in {0, 1})
           => \E v \in {1, 5, 9} : ret.val = Float(Dec(v, 10))
    /\ (op = "Bearing.weight" /\ arg.o \in 0..3)
           => ret.kind = "value" /\ AtLeastFloor(ret.val) /\ ret.val.n <= ret.val.d
    /\ op = "Bearing.observation"
           => \A i \in 1..4 :
                  /\ AtLeastFloor(Bearing_weights(arg.x, sensor_range)[i])
                  /\ Positive(Bearing_weights(arg.x, sensor_range)[i])

\* C9, amended: each of obs0..obs3 of Bearing lies in (0, 1] (obs0 falls
\* under 0.0001 for a range just above sensor_range/2, obs1..obs3 for a
\* range just under sensor_range); the two weights of Drone are p and the
\* float 1 - p for a p of {0.1, 0.5, 0.9} (1 - 0.9 is not the float 0.1) and
\* sum to 1; the rest as stated.
C9_PositiveWeights ==
    /\ C9_DroneSampler
    /\ C9_BearingSampler
    /\ (op = "Drone.weight" /\ arg.o \in {0, 1})
           => \E v \in {1, 5, 9} :
                  ret.val = Float(IF arg.o = 1 THEN Dec(v, 10)
                                  ELSE FSub(I(1), Dec(v, 10)))
    /\ (op = "Bearing.weight" /\ arg.o \in 0..3)
           => ret.kind = "value" /\ Positive(ret.val)
    /\ op = "Bearing.observation"
           => \A i \in 1..4 : Positive(Bearing_weights(arg.x, sensor_range)[i])

\* observation returned the symbol 3 for a state whose obs3 is under 0.0001
C9_Witness ==
    /\ op = "Bearing.observation" /\ ret = Symbol(3)
    /\ ~AtLeastFloor(Bearing_obs3(arg.x, sensor_range))
    /\ Positive(Bearing_obs3(arg.x, sensor_range))

====
